---------------------------- MODULE Spec2Model ----------------------------
(***************************************************************************)
(* Idea Farm: the idea processing pipeline (functions/main.py) and the     *)
(* services it calls (content_extractor, ai_service, token_service,        *)
(* drive_service), as a state machine over one idea document, its content  *)
(* sub-document, one user's secret record and that user's archive store.   *)
(*                                                                         *)
(* Python values are modelled as follows.                                  *)
(*  - A dict is a record over a fixed key set whose missing keys hold      *)
(*    ABSENT; Python's None is the string "None".                          *)
(*  - A str whose length matters is a Text: a sequence of segments         *)
(*    [s, n, of], "the first n of the `of` characters of string s".  The   *)
(*    empty string is the empty sequence.  Slicing and concatenation act   *)
(*    on segments, so that a truncated text differs from its original.     *)
(***************************************************************************)
EXTENDS Integers, Sequences, FiniteSets, TLC

\* ------------------------------------------------------------ bounds
\* Creation events delivered for the idea (at-least-once delivery).
MaxRuns == 2
\* Input lengths are taken within Slack of each length where the code branches.
Slack == 1

\* ------------------------------------------------- program constants
\* main.py:80-81  the limit on the stored text
MaxExtractedLen == 900000
\* main.py:81  len("... (truncated)")
MarkerLen == 15
\* main.py:77  the f-string's text up to {extraction_error_msg}
NoteHeadLen == 56
\* main.py:77  the f-string's text between {extraction_error_msg} and {content}
NoteTailLen == 115
\* main.py:70  len("Extraction returned empty content.")
EmptyMsgLen == 34
\* main.py:73  len("Extraction failed: ")
FailedPrefixLen == 19
\* content_extractor.py:54  len("YouTube Transcript:\n\n")
TranscriptLabelLen == 21

\* ------------------------------------------------------------- values
ABSENT == "<absent>"
NONE == "None"

\* ------------------------------------------------------------- Text
Str(s, k) == IF k = 0 THEN << >> ELSE << [s |-> s, n |-> k, of |-> k] >>

RECURSIVE TLen(_)
TLen(t) == IF t = << >> THEN 0 ELSE Head(t).n + TLen(Tail(t))

\* Python's t[:k]
RECURSIVE Take(_, _)
Take(t, k) ==
    IF t = << >> \/ k = 0 THEN << >>
    ELSE IF Head(t).n <= k
         THEN << Head(t) >> \o Take(Tail(t), k - Head(t).n)
         ELSE << [Head(t) EXCEPT !.n = k] >>

\* An optional str: None, or a Text.
NoText == [none |-> TRUE, t |-> << >>]
Some(t) == [none |-> FALSE, t |-> t]
\* Python truthiness of an optional str
Truthy(o) == ~o.none /\ o.t # << >>

\* The whole of string s occurs in t
ContainsWhole(t, s) == \E i \in 1..Len(t) : t[i].s = s /\ t[i].n = t[i].of


\* ------------------------------------------------------------- dicts
ResultKeys == {"overview", "summary", "detailedAnalysis", "topic", "suggestedLinks", "error"}
DocKeys == {"status", "summary", "detailedAnalysis", "driveFileId", "topic",
            "suggestedLinks", "updatedAt", "error"}
EmptyResult == [k \in ResultKeys |-> ABSENT]
EmptyUpdate == [k \in DocKeys |-> ABSENT]
\* Python's `k in d` and d.get(k, default)
Has(d, k) == d[k] # ABSENT
Get(d, k, default) == IF Has(d, k) THEN d[k] ELSE default
\* Python truthiness of a str-or-None value
TruthyVal(v) == v \notin {ABSENT, NONE, ""}
\* Firestore's DocumentReference.update: the given fields are overwritten, the
\* others are kept.
Merge(d, upd) == [k \in DocKeys |-> IF Has(upd, k) THEN upd[k] ELSE d[k]]

\* A value json.loads returns: a dict, or something else.
PyDict(d) == [py |-> "dict", d |-> d]
PyOther(kind) == [py |-> kind, d |-> EmptyResult]

\* ------------------------------------------------- content_extractor
\* What the network gives to one extraction: whether the URL parses to a video
\* id, whether a transcript is available, whether requests.get and the fallback
\* fetch give a body, and the length of the text found (0: none).
BodyLens == {0, 1, MaxExtractedLen + 1}
NetOutcomes == [video : BOOLEAN, transcript : BOOLEAN, fetch : BOOLEAN,
                fallback : BOOLEAN, body : BodyLens]

_get_youtube_transcript(net) ==
    IF net.transcript
    THEN Some(Str("ytLabel", TranscriptLabelLen) \o Str("transcript", net.body))
    ELSE NoText

\* [raised, value]: raises ValueError when nothing was fetched or extracted.
_extract_web_page(net) ==
    LET downloaded == net.fetch \/ net.fallback IN
    IF ~downloaded THEN [raised |-> TRUE, value |-> NoText]
    ELSE IF net.body = 0 THEN [raised |-> TRUE, value |-> NoText]
    ELSE [raised |-> FALSE, value |-> Some(Str("page", net.body))]

\* extract_content giving the empty string when the page extraction raises
extract_content_EmptyOnFailure(url, net) ==
    IF url = << >> THEN NoText
    ELSE IF net.video THEN _get_youtube_transcript(net)
    ELSE LET r == _extract_web_page(net) IN
         IF r.raised THEN Some(<< >>) ELSE r.value

extract_content(url, net) ==
    IF url = << >> THEN NoText
    ELSE IF net.video THEN _get_youtube_transcript(net)
    ELSE LET r == _extract_web_page(net) IN
         IF r.raised THEN NoText ELSE r.value

\* ------------------------------------------------------- ai_service
JsonErrorMsg == "Expecting value: line 1 column 1 (char 0)"
CallErrorMsg == "model call failed"
\* Dicts the model's JSON may parse to: a full analysis, an analysis under the
\* old "summary" key with an empty body, an empty object, and objects that
\* themselves carry an "error" key.
ParsedDicts ==
    {[EmptyResult EXCEPT !.overview = "ov", !.detailedAnalysis = "an",
                         !.topic = "tp", !.suggestedLinks = "[l1]"],
     [EmptyResult EXCEPT !.summary = "sm", !.detailedAnalysis = ""],
     EmptyResult,
     [EmptyResult EXCEPT !.overview = "ov", !.detailedAnalysis = "an",
                         !.error = "model says no"],
     [EmptyResult EXCEPT !.error = NONE]}
\* What one generate_content call gives: an exception, or a text that, with its
\* code fences stripped, is no JSON, or JSON for a dict, a list or a number.
ModelResponses ==
    {[call |-> "raises", json |-> PyOther("none")]}
    \cup [call : {"text"},
          json : {PyOther("invalid"), PyOther("list"), PyOther("int")}
                 \cup {PyDict(d) : d \in ParsedDicts}]

ErrorResult(msg) ==
    PyDict([EmptyResult EXCEPT !.summary = "AI Summarization failed.",
                               !.topic = "Uncategorized",
                               !.suggestedLinks = "[]",
                               !.error = msg])

\* AIService.summarize with self.client = client
summarize(content, client, resp) ==
    IF content = << >> \/ client = NONE THEN PyDict(EmptyResult)
    ELSE IF resp.call = "raises" THEN ErrorResult(CallErrorMsg)
    ELSE IF resp.json.py = "invalid" THEN ErrorResult(JsonErrorMsg)
    ELSE resp.json

\* ---------------------------------------------------- token_service
Keys == {"k1", "k2"}
\* A Fernet token: the plaintext, the key it was made under, and whether its
\* authentication tag still matches ("ok") or the token was altered ("bad").
NoCipher == [pt |-> ABSENT, key |-> ABSENT, mac |-> ABSENT]
Tampered(cipher) == [cipher EXCEPT !.mac = "bad"]

\* token_service.py:21-28  [raised, value]; get_fernet_key (15-19) raises
\* ValueError without a key, and the except clause re-raises
encrypt_token(token, key) ==
    IF key = NONE THEN [raised |-> TRUE, value |-> NoCipher]
    ELSE [raised |-> FALSE, value |-> [pt |-> token, key |-> key, mac |-> "ok"]]

\* decrypt_token returning the plaintext without verifying the token
decrypt_token_NoVerify(cipher, key) ==
    IF key = NONE THEN [raised |-> TRUE, value |-> NONE]
    ELSE [raised |-> FALSE, value |-> cipher.pt]

\* token_service.py:30-37  [raised, value]; Fernet.decrypt raises InvalidToken
\* for a token made under another key or altered, and the except clause
\* re-raises
decrypt_token(cipher, key) ==
    IF key = NONE \/ cipher.key # key \/ cipher.mac # "ok"
    THEN [raised |-> TRUE, value |-> NONE]
    ELSE [raised |-> FALSE, value |-> cipher.pt]

\* The environment of one get_user_credentials call.
CredEnvs == [read : BOOLEAN, key : Keys \cup {NONE}, client : BOOLEAN, refresh : BOOLEAN]
NoSecret == [exists |-> FALSE, token |-> NoCipher]
\* No get_user_credentials call was made.
NoLookup == [out |-> "nocall", refreshes |-> 0, refreshed |-> FALSE]

\* get_user_credentials without the try/except of lines 59-86
get_user_credentials_NoTry(user_id, sec, env) ==
    LET ret(out, n, ok) == [out |-> out, refreshes |-> n, refreshed |-> ok] IN
    IF user_id = NONE \/ ~env.read THEN ret("raise", 0, FALSE)
    ELSE IF ~sec.exists THEN ret(NONE, 0, FALSE)
    ELSE IF sec.token = NoCipher THEN ret(NONE, 0, FALSE)
    ELSE IF decrypt_token(sec.token, env.key).raised THEN ret("raise", 0, FALSE)
    ELSE IF ~env.client THEN ret(NONE, 0, FALSE)
    ELSE IF ~env.refresh THEN ret("raise", 1, FALSE)
    ELSE ret("creds", 1, TRUE)

\* get_user_credentials returning the credentials without the refresh exchange
get_user_credentials_NoRefresh(user_id, sec, env) ==
    LET ret(out, n, ok) == [out |-> out, refreshes |-> n, refreshed |-> ok] IN
    IF user_id = NONE \/ ~env.read THEN ret("raise", 0, FALSE)
    ELSE IF ~sec.exists THEN ret(NONE, 0, FALSE)
    ELSE IF sec.token = NoCipher THEN ret(NONE, 0, FALSE)
    ELSE IF decrypt_token(sec.token, env.key).raised THEN ret(NONE, 0, FALSE)
    ELSE IF ~env.client THEN ret(NONE, 0, FALSE)
    ELSE ret("creds", 0, FALSE)

\* token_service.py:39-86  out is "creds", NONE, or "raise" (an exception leaves
\* the function); refreshes counts the calls of creds.refresh (line 80), which
\* is made whenever line 79 is reached, the credentials being built without an
\* access token; refreshed tells that it returned.
get_user_credentials(user_id, sec, env) ==
    LET ret(out, n, ok) == [out |-> out, refreshes |-> n, refreshed |-> ok] IN
    IF user_id = NONE \/ ~env.read THEN ret("raise", 0, FALSE)
    ELSE IF ~sec.exists THEN ret(NONE, 0, FALSE)
    ELSE IF sec.token = NoCipher THEN ret(NONE, 0, FALSE)
    ELSE IF decrypt_token(sec.token, env.key).raised THEN ret(NONE, 0, FALSE)
    ELSE IF ~env.client THEN ret(NONE, 0, FALSE)
    ELSE IF ~env.refresh THEN ret(NONE, 1, FALSE)
    ELSE ret("creds", 1, TRUE)

\* ---------------------------------------------------- drive_service
\* The archive store: the folders named "Idea Farm", the files present and
\* the number of files ever created.
EmptyDrive == [folders |-> 0, files |-> {}, created |-> 0]
DriveEnvs == [find : BOOLEAN, mkdir : BOOLEAN, upload : BOOLEAN]

find_folder(drv, ok) == ok /\ drv.folders > 0

\* [drive, found]
\* drive_service.py:38-49  the store after create_folder; a failed call
\* creates nothing
create_folder(drv, ok) == IF ok THEN [drv EXCEPT !.folders = @ + 1] ELSE drv

ensure_folder(drv, env) ==
    IF find_folder(drv, env.find) THEN [drive |-> drv, found |-> TRUE]
    ELSE IF env.mkdir THEN [drive |-> [drv EXCEPT !.folders = @ + 1], found |-> TRUE]
    ELSE [drive |-> drv, found |-> FALSE]

\* [drive, id]
upload_markdown(drv, env) ==
    LET e == ensure_folder(drv, env)
        id == "f" \o ToString(e.drive.created + 1)
    IN IF env.upload
       THEN [drive |-> [e.drive EXCEPT !.files = @ \cup {id}, !.created = @ + 1],
             id |-> id]
       ELSE [drive |-> e.drive, id |-> NONE]


\* ExtractionNote leaving the URL out
ExtractionNote_NoUrl(msg, content) ==
    Str("noteHead", NoteHeadLen) \o msg \o Str("noteTail", NoteTailLen)

\* ------------------------------------------------ main.py: helpers
\* main.py:77  the system note for a failed extraction
ExtractionNote(msg, content) ==
    Str("noteHead", NoteHeadLen) \o msg \o Str("noteTail", NoteTailLen) \o content

\* Truncate cutting a text that is exactly at the limit
Truncate_AtLimit(t) ==
    IF TLen(t) >= MaxExtractedLen
    THEN Take(t, MaxExtractedLen) \o Str("marker", MarkerLen)
    ELSE t

\* main.py:80-81
Truncate(t) ==
    IF TLen(t) > MaxExtractedLen
    THEN Take(t, MaxExtractedLen) \o Str("marker", MarkerLen)
    ELSE t

\* The outcomes of the call extract_content(content) at main.py:65: it always
\* returns, the try/except of content_extractor.py:24-36 catching whatever is
\* raised below it; exc is str(e) of an exception leaving it.
ExtractCallOutcome(url, net) ==
    [raised |-> FALSE, value |-> extract_content(url, net), exc |-> << >>]
ExtractCalls(url) == {ExtractCallOutcome(url, net) : net \in NetOutcomes}
NoCall == [raised |-> FALSE, value |-> NoText, exc |-> << >>]

\* main.py:61-74  extraction_error_msg
ExtractionErrorMsg(input_type, call) ==
    IF input_type # "url" THEN NoText
    ELSE IF call.raised THEN Some(Str("failedPrefix", FailedPrefixLen) \o call.exc)
    ELSE IF Truthy(call.value) THEN NoText
    ELSE Some(Str("emptyMsg", EmptyMsgLen))

\* ExtractedText falling back to the original content when extraction fails
ExtractedText_NoNote(content, input_type, call) ==
    Truncate(IF input_type = "url" /\ Truthy(call.value) THEN call.value.t ELSE content)

\* main.py:57-81  extracted_text as it is stored
ExtractedText(content, input_type, call) ==
    LET msg == ExtractionErrorMsg(input_type, call)
        text == IF Truthy(msg) THEN ExtractionNote(msg.t, content)
                ELSE IF input_type = "url" /\ Truthy(call.value) THEN call.value.t
                ELSE content
    IN Truncate(text)

\* FinalStatus ignoring the summarizer's error
FinalStatus_AlwaysReady(res) == "ready"

\* main.py:124
FinalStatus(res) == IF ~Has(res, "error") THEN "ready" ELSE "failed"

\* main.py:123-134  update_data
UpdateData(res, file_id) ==
    [status |-> FinalStatus(res),
     summary |-> Get(res, "overview", Get(res, "summary", NONE)),
     detailedAnalysis |-> Get(res, "detailedAnalysis", NONE),
     driveFileId |-> file_id,
     topic |-> Get(res, "topic", "Uncategorized"),
     suggestedLinks |-> Get(res, "suggestedLinks", "[]"),
     updatedAt |-> "SERVER_TIMESTAMP",
     error |-> IF Has(res, "error") THEN res.error ELSE ABSENT]

\* HandlerData without the error field
HandlerData_NoError(e) == [EmptyUpdate EXCEPT !.status = "failed"]

\* main.py:141-144  what the top-level handler writes
HandlerData(e) == [EmptyUpdate EXCEPT !.status = "failed", !.error = e]

\* ArchiveStage without the try/except of main.py:104-120: an exception of the
\* credential lookup or of building the drive client leaves the stage
ArchiveStage_NoCatch(res, user_id, sec, drv, cenv, build, denv) ==
    LET out(why, r, l) == [drive |-> drv, id |-> NONE, outcome |-> why,
                           raised |-> r, lookup |-> l] IN
    IF ~TruthyVal(Get(res, "detailedAnalysis", NONE)) THEN out("noAnalysis", FALSE, NoLookup)
    ELSE IF user_id = ABSENT THEN out("noUserId", TRUE, NoLookup)
    ELSE LET creds == get_user_credentials(user_id, sec, cenv) IN
         IF creds.out = "raise" THEN out("credsRaised", TRUE, creds)
         ELSE IF creds.out = NONE THEN out("noCreds", FALSE, creds)
         ELSE IF ~build THEN out("buildRaised", TRUE, creds)
         ELSE LET u == upload_markdown(drv, denv) IN
              [drive |-> u.drive, id |-> u.id,
               outcome |-> IF u.id = NONE THEN "uploadNone" ELSE "uploaded",
               raised |-> FALSE, lookup |-> creds]

\* ArchiveStage looking the credentials up before it tests the analysis
ArchiveStage_LookupFirst(res, user_id, sec, drv, cenv, build, denv) ==
    LET skip(why, l) == [drive |-> drv, id |-> NONE, outcome |-> why,
                         raised |-> FALSE, lookup |-> l] IN
    IF user_id = ABSENT THEN skip("noUserId", NoLookup)
    ELSE LET creds == get_user_credentials(user_id, sec, cenv) IN
         IF creds.out = "raise" THEN skip("credsRaised", creds)
         ELSE IF creds.out = NONE THEN skip("noCreds", creds)
         ELSE IF ~build THEN skip("buildRaised", creds)
         ELSE LET u == upload_markdown(drv, denv) IN
              [drive |-> u.drive, id |-> u.id,
               outcome |-> IF u.id = NONE THEN "uploadNone" ELSE "uploaded",
               raised |-> FALSE, lookup |-> creds]

\* main.py:98-120  the archival stage: [drive, id, outcome, raised, lookup];
\* lookup is what the get_user_credentials call of line 109 gave
ArchiveStage(res, user_id, sec, drv, cenv, build, denv) ==
    LET skip(why, l) == [drive |-> drv, id |-> NONE, outcome |-> why,
                         raised |-> FALSE, lookup |-> l] IN
    IF ~TruthyVal(Get(res, "detailedAnalysis", NONE)) THEN skip("noAnalysis", NoLookup)
    ELSE IF user_id = ABSENT THEN skip("noUserId", NoLookup)
    ELSE LET creds == get_user_credentials(user_id, sec, cenv) IN
         IF creds.out = "raise" THEN skip("credsRaised", creds)
         ELSE IF creds.out = NONE THEN skip("noCreds", creds)
         ELSE IF ~build THEN skip("buildRaised", creds)
         ELSE LET u == upload_markdown(drv, denv) IN
              [drive |-> u.drive, id |-> u.id,
               outcome |-> IF u.id = NONE THEN "uploadNone" ELSE "uploaded",
               raised |-> FALSE, lookup |-> creds]

\* ------------------------------------------------------------- state
\* The lengths of originalContent: short ones, and those around the lengths
\* where the stored text reaches the limit (a text as it is, a URL inside the
\* system note).
NoteFixedLen == NoteHeadLen + EmptyMsgLen + NoteTailLen
TextLens == {0, 1} \cup ((MaxExtractedLen - Slack)..(MaxExtractedLen + Slack))
UrlLens == {0, 1} \cup ((MaxExtractedLen - NoteFixedLen - Slack)
                          ..(MaxExtractedLen - NoteFixedLen + Slack))
Idea(type, n, user) == [inputType |-> type, originalContent |-> Str("orig", n), userId |-> user]
Ideas == {Idea("text", n, "u1") : n \in TextLens}
         \cup {Idea("url", n, "u1") : n \in UrlLens}
         \cup {Idea("text", 1, ABSENT), Idea("url", 1, ABSENT)}
\* Creation events are delivered at least once; redelivery is explored, up to
\* MaxRuns deliveries, for the ideas with a short content.
Deliveries(i) == IF TLen(i.originalContent) <= 1 THEN MaxRuns ELSE 1

\* No deletion event was handled; no call was made.
NoDeletion == [outcome |-> "none", called |-> FALSE, raised |-> FALSE,
               lookup |-> NoLookup, drive |-> EmptyDrive, inRun |-> FALSE]
NoCredCall == [sec |-> NoSecret,
               env |-> [read |-> TRUE, key |-> NONE, client |-> TRUE, refresh |-> TRUE],
               out |-> NoLookup]
NotDecrypted == [raised |-> FALSE, value |-> ABSENT]
NoTripCall == [token |-> ABSENT, key |-> ABSENT, key2 |-> ABSENT, tampered |-> FALSE,
               enc |-> [raised |-> FALSE, value |-> NoCipher], dec |-> NotDecrypted]
NoExCall == [sec |-> NoSecret,
             env |-> [code |-> FALSE, client |-> FALSE, reply |-> "raises",
                      key |-> NONE, auth |-> FALSE, write |-> FALSE],
             after |-> NoSecret,
             ret |-> [kind |-> "nocall", raised |-> FALSE]]
NoExtCall == [url |-> << >>,
              net |-> [video |-> FALSE, transcript |-> FALSE, fetch |-> FALSE,
                       fallback |-> FALSE, body |-> 0],
              call |-> [raised |-> FALSE, value |-> NoText, exc |-> << >>],
              made |-> FALSE]
\* Two creation runs of one user's ideas that upload at the same time.
Uploaders == {"run1", "run2"}
NotUploading == [pc |-> "idle", searched |-> FALSE, found |-> FALSE]

VARIABLES
    idea,                  \* the created idea document's immutable fields (event.data)
    doc,                   \* ideas/{ideaId}: the fields the pipeline writes
    contentDoc,            \* ideas/{ideaId}/content/text: fullText, or none
    secret,                \* users/{uid}/params/secrets
    drive,                 \* the user's archive store
    aiService,             \* ai_service._ai_service: "unset", "client" or None (no client)
    pc,                    \* where the creation run is
    runs,                  \* creation events delivered
    extracted_text,        \* locals of process_new_idea
    extraction_error_msg,
    result,
    drive_file_id,
    exc,                   \* str(e) of the exception the top-level handler caught
    raisedAt,              \* the step that raised it ("none": nothing raised)
    stored,                \* this run wrote the content sub-document
    summarized,            \* the text this run gave to summarize
    modelReply,            \* what this run's model call gave ("notcalled": no call)
    archival,              \* the archival stage's outcome in this run
    lookup,                \* what this run's get_user_credentials call gave
    writes,                \* the status values this run wrote to the idea document, in order
    deleted,               \* the idea document was deleted
    deletion,              \* what on_idea_deleted did
    \* The last call made of a function taken alone, one record for each
    \* function; the records of the other functions are then empty.
    credCall,              \* a get_user_credentials call: its inputs and what it gave
    tripCall,              \* an encrypt_token call and a decrypt_token call on its result
    exCall,                \* an exchange_auth_code call: the secret record before and
                           \* after it, its environment and what it returned
    extCall,               \* an extract_content call: its inputs and its outcome
    race                   \* two upload_markdown calls in progress at once: for each,
                           \* where it is and what its folder search gave

vars == << idea, doc, contentDoc, secret, drive, aiService, pc, runs,
           extracted_text, extraction_error_msg, result, drive_file_id, exc,
           raisedAt, stored, summarized, modelReply, archival, lookup, writes,
           deleted, deletion, credCall, tripCall, exCall, extCall, race >>
store == << doc, contentDoc, secret, drive >>
locals == << extracted_text, extraction_error_msg, result, drive_file_id, exc,
             raisedAt, stored, summarized, modelReply, archival, lookup >>
deletionVars == << deleted, deletion >>
callVars == << credCall, tripCall, exCall, extCall, race >>

FreshLocals ==
    /\ extracted_text = << >>
    /\ extraction_error_msg = NoText
    /\ result = PyDict(EmptyResult)
    /\ drive_file_id = NONE
    /\ exc = NONE
    /\ raisedAt = "none"
    /\ stored = FALSE
    /\ summarized = NoText
    /\ modelReply = "notcalled"
    /\ archival = "none"
    /\ lookup = NoLookup

Init ==
    /\ idea \in Ideas
    /\ doc = EmptyUpdate
    /\ contentDoc = NoText
    /\ secret = NoSecret
    /\ drive = EmptyDrive
    /\ aiService = "unset"
    /\ pc = "idle"
    /\ runs = 0
    /\ FreshLocals
    /\ writes = << >>
    /\ deleted = FALSE
    /\ deletion = NoDeletion
    /\ credCall = NoCredCall
    /\ tripCall = NoTripCall
    /\ exCall = NoExCall
    /\ extCall = NoExtCall
    /\ race = [u \in Uploaders |-> NotUploading]

\* main.py:54, 136, 141  doc_ref.update raises NotFound once the document is
\* deleted; otherwise it takes effect or fails.
UpdateOutcomes == IF deleted THEN {FALSE} ELSE BOOLEAN

\* An exception reaches the top-level handler (main.py:139).
Raise(at, msg) ==
    /\ pc' = "handler"
    /\ exc' = msg
    /\ raisedAt' = at


\* ------------------------------------------- main.py: process_new_idea
\* main.py:40-41  an event without data: return
EmptyEvent ==
    /\ pc = "idle"
    /\ ~deleted
    /\ runs < Deliveries(idea)
    /\ runs' = runs + 1
    /\ UNCHANGED << idea, store, aiService, pc, locals, writes, deletionVars, callVars >>

\* main.py:43-52  a creation event for the idea is delivered
Start ==
    /\ pc = "idle"
    /\ ~deleted
    /\ runs < Deliveries(idea)
    /\ runs' = runs + 1
    /\ pc' = "mark"
    /\ UNCHANGED << idea, store, aiService, locals, writes, deletionVars, callVars >>

\* main.py:54  doc_ref.update({"status": "processing"})
MarkProcessing ==
    /\ pc = "mark"
    /\ \E ok \in UpdateOutcomes :
          IF ok
          THEN /\ doc' = Merge(doc, [EmptyUpdate EXCEPT !.status = "processing"])
               /\ writes' = Append(writes, "processing")
               /\ pc' = "extract"
               /\ UNCHANGED << exc, raisedAt >>
          ELSE /\ Raise("mark", "status write failed")
               /\ UNCHANGED << doc, writes >>
    /\ UNCHANGED << idea, contentDoc, secret, drive, aiService, runs,
                    extracted_text, extraction_error_msg, result, drive_file_id,
                    stored, summarized, modelReply, archival, lookup,
                    deletionVars, callVars >>

\* main.py:56-81  resolve extracted_text
Extract ==
    /\ pc = "extract"
    /\ \E call \in (IF idea.inputType = "url"
                     THEN ExtractCalls(idea.originalContent) ELSE {NoCall}) :
          /\ extraction_error_msg' = ExtractionErrorMsg(idea.inputType, call)
          /\ extracted_text' = ExtractedText(idea.originalContent, idea.inputType, call)
    /\ pc' = "store"
    /\ UNCHANGED << idea, store, aiService, runs, result, drive_file_id,
                    exc, raisedAt, stored, summarized, modelReply, archival, lookup,
                    writes, deletionVars, callVars >>

\* Store going on to the summarizer when the write failed
Store_IgnoreFailure ==
    /\ pc = "store"
    /\ \E ok \in BOOLEAN :
          IF ok
          THEN /\ contentDoc' = Some(extracted_text)
               /\ stored' = TRUE
          ELSE UNCHANGED << contentDoc, stored >>
    /\ pc' = "summarize"
    /\ UNCHANGED << idea, doc, secret, drive, aiService, runs,
                    extracted_text, extraction_error_msg, result, drive_file_id,
                    exc, raisedAt, summarized, modelReply, archival, lookup,
                    writes, deletionVars, callVars >>

\* main.py:83-85  write the content sub-document
Store ==
    /\ pc = "store"
    /\ \E ok \in BOOLEAN :
          IF ok
          THEN /\ contentDoc' = Some(extracted_text)
               /\ stored' = TRUE
               /\ pc' = "summarize"
               /\ UNCHANGED << exc, raisedAt >>
          ELSE /\ Raise("store", "content write failed")
               /\ UNCHANGED << contentDoc, stored >>
    /\ UNCHANGED << idea, doc, secret, drive, aiService, runs,
                    extracted_text, extraction_error_msg, result, drive_file_id,
                    summarized, modelReply, archival, lookup,
                    writes, deletionVars, callVars >>

\* main.py:90  get_ai_service(): the singleton is built once; building it may
\* leave it without a client (ai_service.py:55-66, 140-144)
AiServiceAfter(svc, init) == IF svc = "unset" THEN (IF init THEN "client" ELSE NONE) ELSE svc

\* main.py:88-99  summarize, then the first uses of result
Summarize ==
    /\ pc = "summarize"
    /\ \E init \in BOOLEAN, resp \in ModelResponses :
          LET svc == AiServiceAfter(aiService, init)
              r == summarize(extracted_text, svc, resp)
              called == extracted_text # << >> /\ svc # NONE
          IN /\ aiService' = svc
             /\ result' = r
             /\ summarized' = Some(extracted_text)
             /\ modelReply' = IF ~called THEN "notcalled"
                              ELSE IF resp.call = "raises" THEN "raises"
                              ELSE resp.json.py
             /\ IF r.py = "int"
                THEN Raise("result", "argument of type 'int' is not iterable")
                ELSE IF r.py = "list"
                THEN Raise("result", "'list' object has no attribute 'get'")
                ELSE /\ pc' = "archive"
                     /\ UNCHANGED << exc, raisedAt >>
    /\ UNCHANGED << idea, store, runs, extracted_text,
                    extraction_error_msg, drive_file_id, stored, archival, lookup,
                    writes, deletionVars, callVars >>

\* main.py:98-120  optional archival
Archive ==
    /\ pc = "archive"
    /\ \E a \in {ArchiveStage(result.d, idea.userId, secret, drive, cenv, build, denv) :
                     cenv \in CredEnvs, build \in BOOLEAN, denv \in DriveEnvs} :
          /\ drive' = a.drive
          /\ drive_file_id' = a.id
          /\ archival' = a.outcome
          /\ lookup' = a.lookup
          /\ IF a.raised
             THEN Raise("archive", "archival failed")
             ELSE /\ pc' = "update"
                  /\ UNCHANGED << exc, raisedAt >>
    /\ UNCHANGED << idea, doc, contentDoc, secret, aiService, runs,
                    extracted_text, extraction_error_msg, result, stored,
                    summarized, modelReply, writes, deletionVars, callVars >>

\* Update raising after its write took effect
Update_RaiseAfterWrite ==
    /\ pc = "update"
    /\ doc' = Merge(doc, UpdateData(result.d, drive_file_id))
    /\ writes' = Append(writes, UpdateData(result.d, drive_file_id).status)
    /\ \E ok \in BOOLEAN :
          IF ok
          THEN /\ pc' = "done"
               /\ UNCHANGED << exc, raisedAt >>
          ELSE Raise("update", "raised after the final update")
    /\ UNCHANGED << idea, contentDoc, secret, drive, aiService, runs,
                    extracted_text, extraction_error_msg, result, drive_file_id,
                    stored, summarized, modelReply, archival, lookup,
                    deletionVars, callVars >>

\* main.py:122-137  the final update
Update ==
    /\ pc = "update"
    /\ \E ok \in UpdateOutcomes :
          IF ok
          THEN /\ doc' = Merge(doc, UpdateData(result.d, drive_file_id))
               /\ writes' = Append(writes, UpdateData(result.d, drive_file_id).status)
               /\ pc' = "done"
               /\ UNCHANGED << exc, raisedAt >>
          ELSE /\ Raise("update", "final update failed")
               /\ UNCHANGED << doc, writes >>
    /\ UNCHANGED << idea, contentDoc, secret, drive, aiService, runs,
                    extracted_text, extraction_error_msg, result, drive_file_id,
                    stored, summarized, modelReply, archival, lookup,
                    deletionVars, callVars >>

\* main.py:139-144  the top-level handler; its own write may raise, and then the
\* exception leaves process_new_idea
Handler ==
    /\ pc = "handler"
    /\ \E ok \in UpdateOutcomes :
          IF ok
          THEN /\ doc' = Merge(doc, HandlerData(exc))
               /\ writes' = Append(writes, HandlerData(exc).status)
               /\ pc' = "done"
          ELSE /\ pc' = "crashed"
               /\ UNCHANGED << doc, writes >>
    /\ UNCHANGED << idea, contentDoc, secret, drive, aiService, runs, locals,
                    deletionVars, callVars >>

\* The run is over; its locals are gone.
Return ==
    /\ pc \in {"done", "crashed"}
    /\ pc' = "idle"
    /\ extracted_text' = << >>
    /\ extraction_error_msg' = NoText
    /\ result' = PyDict(EmptyResult)
    /\ drive_file_id' = NONE
    /\ exc' = NONE
    /\ raisedAt' = "none"
    /\ stored' = FALSE
    /\ summarized' = NoText
    /\ modelReply' = "notcalled"
    /\ archival' = "none"
    /\ lookup' = NoLookup
    /\ writes' = << >>
    /\ UNCHANGED << idea, store, aiService, runs, deletionVars, callVars >>

\* A new function instance: the process-wide singleton is unset again.
ColdStart ==
    /\ pc = "idle"
    /\ aiService # "unset"
    /\ aiService' = "unset"
    /\ UNCHANGED << idea, store, pc, runs, locals, writes, deletionVars, callVars >>

\* ------------------------------------------ main.py: exchange_auth_code
Tokens == {"rt1"}
TokenReplies == {"raises", "error", "norefresh"} \cup Tokens
ExchangeEnvs == [code : BOOLEAN, client : BOOLEAN, reply : TokenReplies,
                 key : Keys \cup {NONE}, auth : BOOLEAN, write : BOOLEAN]

\* SecretAfterExchange storing the refresh token as it came
SecretAfterExchange_Plaintext(sec, env) ==
    IF ~env.code THEN sec
    ELSE IF ~env.client THEN sec
    ELSE IF env.reply \notin Tokens THEN sec
    ELSE IF ~env.auth \/ ~env.write THEN sec
    ELSE [exists |-> TRUE, token |-> [pt |-> env.reply, key |-> NONE, mac |-> NONE]]

\* main.py:151-206  the secret record after the call
SecretAfterExchange(sec, env) ==
    IF ~env.code THEN sec
    ELSE IF ~env.client THEN sec
    ELSE IF env.reply \notin Tokens THEN sec
    ELSE LET enc == encrypt_token(env.reply, env.key) IN
         IF enc.raised \/ ~env.auth \/ ~env.write THEN sec
         ELSE [exists |-> TRUE, token |-> enc.value]

\* main.py:151-206  what the call gives: [kind, raised]. kind is "error" for a
\* returned {"error": ...}, "norefresh" for {"success": False, ...}, "success"
\* for {"success": True}; raised tells that an exception left the function
\* (the except of line 204 catches them all).
ExchangeReturn(env) ==
    LET ret(kind) == [kind |-> kind, raised |-> FALSE] IN
    IF ~env.code THEN ret("error")
    ELSE IF ~env.client THEN ret("error")
    ELSE IF env.reply = "raises" THEN ret("error")
    ELSE IF env.reply = "error" THEN ret("error")
    ELSE IF env.reply = "norefresh" THEN ret("norefresh")
    ELSE IF encrypt_token(env.reply, env.key).raised THEN ret("error")
    ELSE IF ~env.auth \/ ~env.write THEN ret("error")
    ELSE ret("success")

exchange_auth_code ==
    /\ \E sec \in {SecretAfterExchange(secret, env) : env \in ExchangeEnvs} : secret' = sec
    /\ UNCHANGED << idea, doc, contentDoc, drive, aiService, pc, runs, locals,
                    writes, deletionVars, callVars >>

\* --------------------------------------------- main.py: on_idea_deleted
\* drive_service.py:90-98  [drive, success]: the API call fails for a file
\* that is not there, and a failure is reported as False
delete_file(drv, file_id, ok) ==
    IF ok /\ file_id \in drv.files
    THEN [drive |-> [drv EXCEPT !.files = @ \ {file_id}], success |-> TRUE]
    ELSE [drive |-> drv, success |-> FALSE]

\* The environment of one on_idea_deleted call: whether the event carries the
\* deleted snapshot, and what the calls it makes meet.
DeleteEnvs == [data : BOOLEAN, cred : CredEnvs, build : BOOLEAN, delete : BOOLEAN]

\* DeleteStage calling delete_file without credentials
DeleteStage_NoCredsCheck(snap, user_id, sec, drv, env) ==
    LET end(why, l) == [outcome |-> why, called |-> FALSE, raised |-> FALSE,
                        lookup |-> l, drive |-> drv] IN
    IF ~env.data THEN end("noData", NoLookup)
    ELSE IF ~(TruthyVal(snap.driveFileId) /\ user_id # ABSENT) THEN end("noIds", NoLookup)
    ELSE LET creds == get_user_credentials(user_id, sec, env.cred) IN
         IF creds.out = "raise" THEN end("credsRaised", creds)
         ELSE IF ~env.build THEN end("buildRaised", creds)
         ELSE LET d == delete_file(drv, snap.driveFileId, env.delete) IN
              [outcome |-> IF d.success THEN "deleted" ELSE "deleteFailed",
               called |-> TRUE, raised |-> FALSE, lookup |-> creds, drive |-> d.drive]

\* main.py:216-241  on_idea_deleted: [outcome, called, raised, lookup, drive];
\* called tells that delete_file was called, raised that an exception left the
\* function (the except of line 240 catches them all), drive is the archive
\* store afterwards
DeleteStage(snap, user_id, sec, drv, env) ==
    LET end(why, l) == [outcome |-> why, called |-> FALSE, raised |-> FALSE,
                        lookup |-> l, drive |-> drv] IN
    IF ~env.data THEN end("noData", NoLookup)
    ELSE IF ~(TruthyVal(snap.driveFileId) /\ user_id # ABSENT) THEN end("noIds", NoLookup)
    ELSE LET creds == get_user_credentials(user_id, sec, env.cred) IN
         IF creds.out = "raise" THEN end("credsRaised", creds)
         ELSE IF creds.out = NONE THEN end("noCreds", creds)
         ELSE IF ~env.build THEN end("buildRaised", creds)
         ELSE LET d == delete_file(drv, snap.driveFileId, env.delete) IN
              [outcome |-> IF d.success THEN "deleted" ELSE "deleteFailed",
               called |-> TRUE, raised |-> FALSE, lookup |-> creds, drive |-> d.drive]

\* The idea document is deleted and the deletion event is handled; the event
\* carries the document as it was then. No creation event is delivered after
\* it. inRun tells that a creation run had begun and not yet come to its end.
HandleDeletion ==
    /\ ~deleted
    /\ deleted' = TRUE
    /\ \E d \in {DeleteStage(doc, idea.userId, secret, drive, env) : env \in DeleteEnvs} :
          /\ deletion' = [outcome |-> d.outcome, called |-> d.called,
                          raised |-> d.raised, lookup |-> d.lookup, drive |-> d.drive,
                          inRun |-> pc \notin {"idle", "done", "crashed"}]
          /\ drive' = d.drive
    /\ UNCHANGED << idea, doc, contentDoc, secret, aiService, pc, runs, locals,
                    writes, callVars >>

\* The deletion between creation runs.
on_idea_deleted == pc = "idle" /\ HandleDeletion

\* The deletion while a creation run is at any of its steps.
DeletedDuringRun == pc # "idle" /\ HandleDeletion

Next ==
    \/ EmptyEvent
    \/ Start
    \/ MarkProcessing
    \/ Extract
    \/ Store
    \/ Summarize
    \/ Archive
    \/ Update
    \/ Handler
    \/ Return
    \/ ColdStart
    \/ exchange_auth_code
    \/ on_idea_deleted

Spec == Init /\ [][Next]_vars

\* The pipeline of one idea with its deletion taken at any moment.
InitInterleaved == Init /\ idea = Idea("text", 1, "u1")
NextInterleaved == Next \/ DeletedDuringRun
SpecInterleaved == InitInterleaved /\ [][NextInterleaved]_vars

\* ------------------------------------- token_service: the calls alone
\* The secret records a call may meet: none, one without the token field, and
\* one holding a ciphertext, as encrypt_token made it or altered since.
Ciphers == {encrypt_token(t, k).value : t \in Tokens, k \in Keys}
SecretRecords ==
    {NoSecret, [exists |-> TRUE, token |-> NoCipher]}
    \cup {[exists |-> TRUE, token |-> c] : c \in Ciphers}
    \cup {[exists |-> TRUE, token |-> Tampered(c)] : c \in Ciphers}
TripTokens == {"", "rt1", "rt2"}

\* token_service.py:39  one call get_user_credentials(user_id)
GetUserCredentialsCall ==
    /\ \E sec \in SecretRecords, env \in CredEnvs :
          credCall' = [sec |-> sec, env |-> env,
                       out |-> get_user_credentials("u1", sec, env)]
    /\ tripCall' = NoTripCall /\ exCall' = NoExCall /\ extCall' = NoExtCall
    /\ UNCHANGED << idea, store, aiService, pc, runs, locals, writes, deletionVars, race >>

\* token_service.py:21, 30  encrypt_token(token) with the key `key` in the
\* environment, then decrypt_token of the ciphertext, as it is or altered,
\* with the key `key2` in the environment
RoundTripCall ==
    /\ \E token \in TripTokens, key \in Keys \cup {NONE}, key2 \in Keys \cup {NONE},
          tampered \in BOOLEAN :
          LET enc == encrypt_token(token, key)
              cipher == IF tampered THEN Tampered(enc.value) ELSE enc.value
          IN tripCall' = [token |-> token, key |-> key, key2 |-> key2,
                          tampered |-> tampered, enc |-> enc,
                          dec |-> IF enc.raised THEN NotDecrypted
                                  ELSE decrypt_token(cipher, key2)]
    /\ credCall' = NoCredCall /\ exCall' = NoExCall /\ extCall' = NoExtCall
    /\ UNCHANGED << idea, store, aiService, pc, runs, locals, writes, deletionVars, race >>

\* main.py:147  one call exchange_auth_code(req) with the user's secret record
\* being sec
ExchangeCall ==
    /\ \E sec \in SecretRecords, env \in ExchangeEnvs :
          exCall' = [sec |-> sec, env |-> env,
                     after |-> SecretAfterExchange(sec, env),
                     ret |-> ExchangeReturn(env)]
    /\ credCall' = NoCredCall /\ tripCall' = NoTripCall /\ extCall' = NoExtCall
    /\ UNCHANGED << idea, store, aiService, pc, runs, locals, writes, deletionVars, race >>

\* content_extractor.py:16  one call extract_content(url)
CallUrls == {<< >>, Str("orig", 1)}
ExtractCall ==
    /\ \E url \in CallUrls, net \in NetOutcomes :
          extCall' = [url |-> url, net |-> net,
                      call |-> ExtractCallOutcome(url, net), made |-> TRUE]
    /\ credCall' = NoCredCall /\ tripCall' = NoTripCall /\ exCall' = NoExCall
    /\ UNCHANGED << idea, store, aiService, pc, runs, locals, writes, deletionVars, race >>

\* ------------------------- drive_service: two uploads at the same time
\* main.py:115  a run with credentials calls upload_markdown
ReachArchival(u) ==
    /\ race[u].pc = "idle"
    /\ race' = [race EXCEPT ![u].pc = "find"]
    /\ UNCHANGED << idea, store, aiService, pc, runs, locals, writes, deletionVars,
                    credCall, tripCall, exCall, extCall >>

\* drive_service.py:53, 23-36  find_folder: the search call
FindFolder(u) ==
    /\ race[u].pc = "find"
    /\ \E ok \in BOOLEAN :
          LET found == find_folder(drive, ok) IN
          race' = [race EXCEPT ![u] = [pc |-> IF found THEN "upload" ELSE "create",
                                       searched |-> ok, found |-> found]]
    /\ UNCHANGED << idea, store, aiService, pc, runs, locals, writes, deletionVars,
                    credCall, tripCall, exCall, extCall >>

\* drive_service.py:56, 38-49  create_folder: the create call
CreateFolder(u) ==
    /\ race[u].pc = "create"
    /\ \E ok \in BOOLEAN : drive' = create_folder(drive, ok)
    /\ race' = [race EXCEPT ![u].pc = "upload"]
    /\ UNCHANGED << idea, doc, contentDoc, secret, aiService, pc, runs, locals, writes,
                    deletionVars, credCall, tripCall, exCall, extCall >>

\* drive_service.py:63-88  the file is created, or the call fails
UploadFile(u) ==
    /\ race[u].pc = "upload"
    /\ \E ok \in BOOLEAN :
          drive' = IF ok
                   THEN [drive EXCEPT !.files = @ \cup {"f" \o ToString(drive.created + 1)},
                                      !.created = @ + 1]
                   ELSE drive
    /\ race' = [race EXCEPT ![u].pc = "done"]
    /\ UNCHANGED << idea, doc, contentDoc, secret, aiService, pc, runs, locals, writes,
                    deletionVars, credCall, tripCall, exCall, extCall >>

InitRace == Init /\ idea = Idea("text", 1, "u1")
NextRace ==
    \E u \in Uploaders : ReachArchival(u) \/ FindFolder(u) \/ CreateFolder(u) \/ UploadFile(u)
SpecRace == InitRace /\ [][NextRace]_vars

InitCalls == Init /\ idea = Idea("text", 1, "u1")
NextCalls == GetUserCredentialsCall \/ RoundTripCall \/ ExchangeCall \/ ExtractCall
SpecCalls == InitCalls /\ [][NextCalls]_vars


\* ============================================================ claims
RunEnded == pc \in {"done", "crashed"}
\* The run ended and no exception reached the top-level handler.
EndedNormally == pc = "done" /\ raisedAt = "none"
ExtractionFailed == Truthy(extraction_error_msg)

\* C1: every creation run that receives a non-empty event ends with the idea's
\* persisted status equal to ready or failed, whatever step failed, a
\* persistence operation or the handler's own write included.
C1_RunEndsReadyOrFailed == RunEnded => doc.status \in {"ready", "failed"}

\* C2: in every reachable state of the idea document, status = ready implies
\* that the error field is absent, also after a rerun that ends ready after
\* an earlier run ended failed.
C2_ReadyImpliesNoError == doc.status = "ready" => ~Has(doc, "error")

\* C3: in every reachable state of the idea document, status = failed implies
\* that the error field is present: the final update and the top-level handler
\* both write an error with status = failed.
C3_FailedImpliesError == doc.status = "failed" => Has(doc, "error")

C3_Witness ==
    /\ pc = "done"
    /\ raisedAt = "update"
    /\ doc.status = "failed"
    /\ doc.error = "final update failed"

\* C4: when no exception reaches the top-level handler, the final status is
\* ready iff the summarizer result carries no error, and otherwise it is failed
\* with the idea's error equal to the summarizer's error; a model response that
\* is no JSON ends failed with a non-empty error.
C4_StatusFollowsSummarizer ==
    EndedNormally =>
        /\ doc.status = "ready" <=> ~Has(result.d, "error")
        /\ Has(result.d, "error") => doc.status = "failed" /\ doc.error = result.d.error
        /\ modelReply = "invalid" => doc.status = "failed" /\ TruthyVal(doc.error)

C4_Witness ==
    /\ EndedNormally
    /\ modelReply = "invalid"
    /\ doc.status = "failed"
    /\ doc.error = JsonErrorMsg

\* C5: for every idea with status ready the persisted summary is non-null, for
\* every summarizer outcome, an empty input text and a model client that failed
\* to initialize included.
C5_ReadyHasSummary == doc.status = "ready" => TruthyVal(doc.summary)

\* C6 (as claimed): for every idea with inputType = text, of any length, the
\* stored text equals originalContent exactly.
C6_TextStoredVerbatim ==
    (idea.inputType = "text" /\ stored) => contentDoc = Some(idea.originalContent)

\* C6 (amended): for every idea with inputType = text the stored text equals
\* originalContent when that is at most 900,000 characters long; a longer
\* content is stored as its first 900,000 characters followed by the marker.
C6_TextStoredVerbatimUpToLimit ==
    (idea.inputType = "text" /\ stored) =>
        LET n == TLen(idea.originalContent) IN
        IF n <= MaxExtractedLen
        THEN contentDoc = Some(idea.originalContent)
        ELSE contentDoc = Some(<< [s |-> "orig", n |-> MaxExtractedLen, of |-> n],
                                  [s |-> "marker", n |-> MarkerLen, of |-> MarkerLen] >>)

C6_Witness ==
    /\ idea.inputType = "text"
    /\ stored
    /\ TLen(idea.originalContent) = MaxExtractedLen
    /\ contentDoc = Some(idea.originalContent)

\* C7: the stored text has length at most 900,000 characters, for every input
\* length and every extraction outcome.
C7_StoredLengthWithinLimit == ~contentDoc.none => TLen(contentDoc.t) <= MaxExtractedLen

\* What C8 says of a stored text t, for the reason msg and the URL url.
BeginsWithPrefix(t) ==
    Len(t) >= 1 /\ t[1] = [s |-> "noteHead", n |-> NoteHeadLen, of |-> NoteHeadLen]
ContainsReason(t, msg) == \A i \in 1..Len(msg) : ContainsWhole(t, msg[i].s)
ContainsUrl(t, url) == url = << >> \/ ContainsWhole(t, "orig")
InstructsFlagging(t) == ContainsWhole(t, "noteTail")
EndsWithMarker(t) ==
    Len(t) >= 1 /\ t[Len(t)] = [s |-> "marker", n |-> MarkerLen, of |-> MarkerLen]

\* C8 (as claimed): for every idea with inputType = url whose extraction fails,
\* the stored text begins with the system-note prefix, contains the failure
\* reason and the complete original URL, and instructs the summarizer to flag
\* the failure.
C8_FailureNoteComplete ==
    (idea.inputType = "url" /\ stored /\ ExtractionFailed) =>
        /\ BeginsWithPrefix(contentDoc.t)
        /\ ContainsReason(contentDoc.t, extraction_error_msg.t)
        /\ ContainsUrl(contentDoc.t, idea.originalContent)
        /\ InstructsFlagging(contentDoc.t)

\* C8 (amended): when the system note (prefix, reason, instruction, URL) is at
\* most 900,000 characters long, the stored text is that note: it begins with
\* the prefix and contains the reason, the instruction and the complete URL.  A
\* longer note is stored cut to 900,000 characters with the marker appended: it
\* begins with the prefix, and the URL is not complete in it.
C8_FailureNoteCompleteUpToLimit ==
    (idea.inputType = "url" /\ stored /\ ExtractionFailed) =>
        LET t == contentDoc.t
            url == idea.originalContent
            noteLen == NoteHeadLen + TLen(extraction_error_msg.t) + NoteTailLen + TLen(url)
        IN IF noteLen <= MaxExtractedLen
           THEN /\ TLen(t) = noteLen
                /\ BeginsWithPrefix(t)
                /\ ContainsReason(t, extraction_error_msg.t)
                /\ ContainsUrl(t, url)
                /\ InstructsFlagging(t)
           ELSE /\ TLen(t) = MaxExtractedLen + MarkerLen
                /\ BeginsWithPrefix(t)
                /\ EndsWithMarker(t)
                /\ url # << >> => ~ContainsWhole(t, "orig")

C8_Witness ==
    /\ idea.inputType = "url"
    /\ stored
    /\ ExtractionFailed
    /\ TLen(contentDoc.t) = MaxExtractedLen
    /\ ContainsWhole(contentDoc.t, "orig")

\* C9: an extraction failure never aborts the run and never by itself yields
\* status failed: no exception reaches the handler from the extraction, the
\* summarizer is still given the system note once it is stored, and the run
\* ends ready whenever nothing else raised and the result carries no error.
C9_ExtractionFailureIsSoft ==
    ExtractionFailed =>
        /\ raisedAt \in {"none", "store", "result", "update"}
        /\ (stored /\ pc # "summarize") =>
              /\ summarized = Some(extracted_text)
              /\ BeginsWithPrefix(summarized.t)
        /\ (EndedNormally /\ ~Has(result.d, "error")) => doc.status = "ready"

C9_Witness ==
    /\ ExtractionFailed
    /\ EndedNormally
    /\ modelReply = "dict"
    /\ BeginsWithPrefix(summarized.t)
    /\ doc.status = "ready"

\* C10: the outcome of the archival stage never changes the idea's final status
\* or error: the stage writes nothing to the idea document, always goes on to
\* the final update, and the status and error that update writes are those the
\* summarizer result gives, whatever the archival outcome was.
C10_ArchivalNeverChangesStatus ==
    [][ /\ pc = "archive" =>
              (pc' \in {"archive", "update"} /\ doc' = doc /\ result' = result)
        /\ (pc = "update" /\ pc' = "done") =>
              /\ doc'.status = (IF Has(result.d, "error") THEN "failed" ELSE "ready")
              /\ doc'.error = (IF Has(result.d, "error") THEN result.d.error ELSE doc.error)
      ]_vars

C10_Witness ==
    /\ EndedNormally
    /\ archival = "buildRaised"
    /\ doc.status = "ready"

\* C11: a creation run writes driveFileId only in its final update, and writes
\* there the value of drive_file_id; that value is not null only if in this run
\* the summarizer result carries a non-empty detailedAnalysis, the credential
\* lookup gave credentials and upload_markdown returned this id of a file it
\* created; when there is no analysis or no user id no lookup is made, and for
\* every archival outcome but a successful upload the value written is null.
C11_DriveFileIdOnlyAfterUpload ==
    [][ /\ (pc = "update" /\ pc' = "done") =>
              /\ doc'.driveFileId = drive_file_id
              /\ drive_file_id # NONE =>
                    /\ TruthyVal(Get(result.d, "detailedAnalysis", NONE))
                    /\ lookup.out = "creds"
                    /\ archival = "uploaded"
                    /\ drive_file_id \in drive.files
              /\ archival # "uploaded" => doc'.driveFileId = NONE
              /\ archival \in {"noAnalysis", "noUserId"} => lookup = NoLookup
        /\ ~(pc = "update" /\ pc' = "done") => doc'.driveFileId = doc.driveFileId
      ]_vars

C11_Witness ==
    /\ EndedNormally
    /\ archival = "uploaded"
    /\ doc.driveFileId = "f2"
    /\ doc.driveFileId = drive_file_id

\* C12: after any sequence of upload_markdown calls with the folder name
\* "Idea Farm" at most one folder of that name has been created, also when a
\* folder search call failed.
C12_AtMostOneFolder == drive.folders <= 1

\* C13: whenever the model call fails or its reply does not parse to the
\* expected object (no JSON, or JSON of another shape), the result of summarize
\* carries an error field, topic "Uncategorized" and an empty suggestedLinks.
C13_FailureCarriesError ==
    modelReply \in {"raises", "invalid", "list", "int"} =>
        /\ Has(result.d, "error")
        /\ result.d.topic = "Uncategorized"
        /\ result.d.suggestedLinks = "[]"

\* The unavailable cases of a get_user_credentials call, but a failed read.
CredCalled == credCall.out.out # "nocall"
NoRecord == ~credCall.sec.exists
NoTokenField == credCall.sec.exists /\ credCall.sec.token = NoCipher
DecryptFails ==
    /\ credCall.sec.exists
    /\ credCall.sec.token # NoCipher
    /\ \/ credCall.env.key = NONE
       \/ credCall.sec.token.key # credCall.env.key
       \/ credCall.sec.token.mac # "ok"
Unavailable ==
    NoRecord \/ NoTokenField \/ DecryptFails \/ ~credCall.env.client \/ ~credCall.env.refresh

\* C14 as stated: get_user_credentials returns None and does not raise in each
\* unavailable case, a failed read of the secret store included.
C14_NoneInEveryUnavailableCase ==
    (CredCalled /\ (Unavailable \/ ~credCall.env.read)) => credCall.out.out = NONE

\* C14: when the read of the secret store succeeds, get_user_credentials
\* returns None and does not raise in each unavailable case (no record, no
\* token field, a ciphertext that fails to decrypt, missing client
\* configuration, a failed refresh); a failed read raises out of the function.
C14_NoneWhenReadSucceeds ==
    CredCalled =>
        /\ (credCall.env.read /\ Unavailable) => credCall.out.out = NONE
        /\ ~credCall.env.read => credCall.out.out = "raise"

C14_Witness ==
    /\ CredCalled
    /\ credCall.env.read
    /\ DecryptFails
    /\ credCall.sec.token.mac = "bad"
    /\ credCall.out.out = NONE

\* C15: a get_user_credentials call that reaches the decryption while the
\* encryption key is missing raises: the error leaves the function and is not
\* turned into None.
C15_MissingKeyRaises ==
    (/\ CredCalled
     /\ credCall.env.read
     /\ credCall.sec.exists
     /\ credCall.sec.token # NoCipher
     /\ credCall.env.key = NONE) => credCall.out.out = "raise"

\* The deleted idea carries a driveFileId and a userId.
CarriesIds == deletion.outcome # "noData" /\ TruthyVal(doc.driveFileId) /\ idea.userId # ABSENT

\* C16 as stated: the deletion flow calls delete_file if and only if the
\* deleted idea carries both a driveFileId and a userId and credentials are
\* obtained, and on_idea_deleted never raises.
C16_DeleteIffIdsAndCredentials ==
    deleted =>
        /\ ~deletion.raised
        /\ deletion.called <=> (CarriesIds /\ deletion.lookup.out = "creds")

\* C16: the deletion flow calls delete_file if and only if the deleted idea
\* carries both a driveFileId and a userId, credentials are obtained and the
\* drive client is built; in every case, a delete reporting false and a raising
\* step included, on_idea_deleted completes without raising and writes neither
\* the idea document nor its content sub-document.
C16_DeleteIffIdsCredentialsAndClient ==
    [][ (~deleted /\ deleted') =>
            /\ ~deletion'.raised
            /\ doc' = doc
            /\ contentDoc' = contentDoc
            /\ deletion'.called <=>
                  /\ deletion'.outcome # "noData"
                  /\ TruthyVal(doc.driveFileId)
                  /\ idea.userId # ABSENT
                  /\ deletion'.lookup.out = "creds"
                  /\ deletion'.outcome # "buildRaised"
      ]_vars

C16_Witness ==
    /\ deleted
    /\ deletion.called
    /\ deletion.outcome = "deleteFailed"
    /\ doc.driveFileId \in drive.files

C18_TextPersistedBeforeSummarize ==
    [][ /\ (summarized.none /\ ~summarized'.none) =>
              /\ stored
              /\ contentDoc = Some(extracted_text)
              /\ summarized' = contentDoc
        /\ stored => contentDoc' = contentDoc
      ]_vars

C18_Witness ==
    /\ pc = "crashed"
    /\ raisedAt = "update"
    /\ stored
    /\ ~summarized.none
    /\ contentDoc = Some(extracted_text)
    /\ archival = "uploaded"

TerminalStatuses == {"ready", "failed"}
\* C19: the status values a run writes to the idea document are, in order,
\* processing at most once and then at most one terminal status; once a
\* terminal status is written the run writes the idea document no more.
C19_StatusWritesForward ==
    [][ /\ writes' \in {<< >>, <<"processing">>}
                      \cup {<<t>> : t \in TerminalStatuses}
                      \cup {<<"processing", t>> : t \in TerminalStatuses}
        /\ (writes # << >> /\ writes[Len(writes)] \in TerminalStatuses) => doc' = doc
      ]_vars

C19_Witness ==
    /\ writes = <<"processing", "failed">>
    /\ raisedAt = "update"
    /\ pc = "done"

\* C20: the archival stage makes at most one refresh exchange; it has
\* credentials only when that exchange was made once and returned; when the
\* exchange fails the stage uploads nothing, leaves drive_file_id null and the
\* run goes on to its final update.
C20_OneRefreshPerArchival ==
    [][ (pc = "archive" /\ pc' # "archive") =>
            /\ lookup'.refreshes <= 1
            /\ archival' \in {"buildRaised", "uploadNone", "uploaded"} =>
                  /\ lookup'.out = "creds"
                  /\ lookup'.refreshes = 1
                  /\ lookup'.refreshed
            /\ lookup'.out = "creds" => (lookup'.refreshes = 1 /\ lookup'.refreshed)
            /\ (lookup'.refreshes = 1 /\ ~lookup'.refreshed) =>
                  /\ archival' = "noCreds"
                  /\ drive' = drive
                  /\ drive_file_id' = NONE
                  /\ pc' = "update"
      ]_vars

C20_Witness ==
    /\ EndedNormally
    /\ archival = "noCreds"
    /\ lookup.refreshes = 1
    /\ ~lookup.refreshed
    /\ doc.status = "ready"
    /\ doc.driveFileId = NONE

\* C21: exchange_auth_code changes the secret record only when the code and
\* the client identity are there and the token endpoint returned a refresh
\* token without error, and the record then holds that token encrypted under
\* the environment's key, not the token itself; in every other case, a raising
\* step included, the record is as it was; and the call always returns a value.
C21_ExchangeWritesOnlyEncrypted ==
    exCall.ret.kind # "nocall" =>
        /\ ~exCall.ret.raised
        /\ exCall.ret.kind = "success" =>
              /\ exCall.env.code /\ exCall.env.client
              /\ exCall.env.reply \in Tokens
              /\ exCall.after.exists
              /\ exCall.after.token.key = exCall.env.key
              /\ exCall.after.token.key \in Keys
              /\ exCall.after.token.mac = "ok"
              /\ decrypt_token(exCall.after.token, exCall.env.key).value = exCall.env.reply
        /\ exCall.ret.kind # "success" => exCall.after = exCall.sec
        /\ (\/ ~exCall.env.code
            \/ ~exCall.env.client
            \/ exCall.env.reply \notin Tokens
            \/ exCall.env.key = NONE
            \/ ~exCall.env.auth
            \/ ~exCall.env.write) =>
              (exCall.after = exCall.sec /\ exCall.ret.kind \in {"error", "norefresh"})

C21_Witness ==
    /\ exCall.ret.kind = "success"
    /\ exCall.sec.exists
    /\ exCall.sec.token.key = "k1"
    /\ exCall.after.token = [pt |-> "rt1", key |-> "k2", mac |-> "ok"]

\* C22: extract_content never raises, and what it returns is None or a text
\* that is not empty: when both fetches give nothing, when nothing is extracted
\* from the page, and when no transcript is available, it returns None.
C22_ExtractNoneOrNonEmpty ==
    extCall.made =>
        /\ ~extCall.call.raised
        /\ extCall.call.value.none \/ TLen(extCall.call.value.t) > 0
        /\ extCall.call.value.none => extCall.call.value.t = << >>
        /\ (~extCall.net.video /\ ~extCall.net.fetch /\ ~extCall.net.fallback) =>
              extCall.call.value.none
        /\ (~extCall.net.video /\ extCall.net.body = 0) => extCall.call.value.none
        /\ (extCall.net.video /\ ~extCall.net.transcript) => extCall.call.value.none

C22_Witness ==
    /\ extCall.made
    /\ extCall.url # << >>
    /\ ~extCall.net.video
    /\ ~extCall.net.fetch
    /\ extCall.net.fallback
    /\ extCall.net.body = 0
    /\ extCall.call.value = NoText

\* C23: when two runs are in upload_markdown at the same time and each one's
\* folder search call succeeded, at most one folder named "Idea Farm" exists
\* once both are done, however their search and create calls interleave.
C23_OneFolderForConcurrentRuns ==
    (\A u \in Uploaders : race[u].pc = "done" /\ race[u].searched) => drive.folders <= 1

\* C24: after completed creation runs followed by the deletion flow, taken
\* between runs, with credentials available and the delete call succeeding, no
\* file uploaded by those runs is left in the archive store.
C24_NoArchiveFileAfterDeletion ==
    (deleted /\ ~deletion.inRun /\ deletion.outcome = "deleted") => drive.files = {}

\* C25: when the idea is deleted while its one creation run is in progress,
\* then once both the run and the deletion flow are over, with the upload made
\* and every archive call of the deletion flow succeeding, no archive file is
\* left and the run ended without an exception leaving process_new_idea.
C25_DeletionDuringRunLeavesNothing ==
    (/\ deleted
     /\ deletion.inRun
     /\ runs = 1
     /\ RunEnded
     /\ archival = "uploaded"
     /\ deletion.outcome \in {"noIds", "deleted"}) =>
        (drive.files = {} /\ pc = "done")

=============================================================================
